---- MODULE Spec2Model ----
(***************************************************************************)
(* Model of the A2A bridge tool server of agentic-control-plane:            *)
(*   - lib/auth.py : the request identity store (_current_token) and the   *)
(*     Kubernetes client factory (create_k8s_client);                      *)
(*   - server.py   : AuthHeaderMiddleware.dispatch;                        *)
(*   - lib/a2a.py  : send_message_to_agent, send_streaming_message_to_agent*)
(*                                                                         *)
(* Python values are modelled as strings: "None" is None, "" is the empty  *)
(* string, every other string is itself.                                   *)
(***************************************************************************)
EXTENDS Integers, Sequences, FiniteSets, TLC

(***************************************************************************)
(* Bounds                                                                  *)
(***************************************************************************)
NumRequests == 2
MaxChunks == 3
MaxServed == 2
MaxAgents == 2

Requests == 1..NumRequests
Tokens == {"T1", "T2"}
HeaderValues == {"None", ""} \cup Tokens

\* An `is not None` test in place of truthiness.
Truthy_is_not_none(v) == v \notin {"None", "False"}

\* Python truthiness of the values used as tokens / flags.
Truthy(v) == v \notin {"None", "", "False"}

(***************************************************************************)
(* State                                                                   *)
(***************************************************************************)
VARIABLES
    env,             \* the process' environment (files, loadable configs)
    default_config,  \* kubernetes.client.Configuration default (process-wide)
    hdr,             \* hdr[r]: value of the X-Auth-Token header of request r
    pc,              \* pc[r]: position of request r in dispatch
    current_token,   \* _current_token, per execution context
    result,          \* result[r]: outcome of the last create_k8s_client in r
    exit,            \* exit[r]: how the wrapped handler finished
    clears,          \* clears[r]: number of clearing set_auth_context(None)
    s_pc,            \* a2a send call: position
    s_kind,          \* "unary" or "streaming"
    agent_url,
    auth_token,
    use_extended_card,
    public_card,
    final_agent_card_to_use,
    net,             \* network operations issued by the send call, in order
    delivered,       \* chunks the peer has delivered on the stream, in order
    result_chunks,   \* the list result_chunks of the streaming call
    outcome,         \* what the send call returned or raised
    entry,           \* "lib": a2a function called directly; "tool": via server.py
    tool_use_extended_card,  \* the tool's use_extended_card argument
    request_token,   \* the bearer token available to the tool call
    served,          \* headers of the requests a worker context has finished
    ALLOWED_NAMESPACES,  \* k8s_readonly_server: the allowed list
    k_pc,            \* read-only tool call: position
    k_tool,          \* which tool was called
    k_namespace,     \* its namespace argument
    k_calls,         \* control-plane calls the tool issued, in order
    k_out,           \* what the tool returned or raised
    d_pc,            \* discovery call: position
    d_op,            \* list_agents, discover_agents or get_agent_details
    d_namespace,     \* namespace argument
    d_all_namespaces,
    d_filter,        \* list_agents' filter argument
    d_name,          \* get_agent_details' agentcard_name argument
    d_cluster,       \* the AgentCard resources in the cluster
    d_token,         \* identity current in the calling request
    d_client,        \* the client _get_k8s_client built
    d_calls,         \* control-plane calls issued, in order, with replies
    d_out            \* what the discovery call returned or raised

authVars == <<env, default_config, hdr, pc, current_token, result, exit,
              clears>>
sendVars == <<s_pc, s_kind, agent_url, auth_token, use_extended_card,
              public_card, final_agent_card_to_use, net, delivered,
              result_chunks, outcome>>
toolVars == <<entry, tool_use_extended_card, request_token>>
\* What the middleware actions and the send actions leave alone.
k8sVars == <<ALLOWED_NAMESPACES, k_pc, k_tool, k_namespace, k_calls, k_out>>
discVars == <<d_pc, d_op, d_namespace, d_all_namespaces, d_filter, d_name,
              d_cluster, d_token, d_client, d_calls, d_out>>
nonAuthVars == <<sendVars, toolVars, served, k8sVars, discVars>>
nonSendVars == <<authVars, toolVars, served, k8sVars, discVars>>
vars == <<env, default_config, hdr, pc, current_token, result,
          exit, clears, s_pc, s_kind, agent_url, auth_token,
          use_extended_card, public_card, final_agent_card_to_use, net,
          delivered, result_chunks, outcome, entry, tool_use_extended_card,
          request_token, served, ALLOWED_NAMESPACES, k_pc, k_tool,
          k_namespace, k_calls, k_out, d_pc, d_op, d_namespace,
          d_all_namespaces, d_filter, d_name, d_cluster, d_token, d_client,
          d_calls, d_out>>

(***************************************************************************)
(* lib/auth.py                                                             *)
(***************************************************************************)
\* The environments the process can run in.  load_incluster_config needs the
\* service-account token and CA files, so it can only succeed when both exist.
Environments ==
    { e \in [sa_token : BOOLEAN, ca_cert : BOOLEAN,
             incluster_ok : BOOLEAN, kubeconfig_ok : BOOLEAN] :
        e.incluster_ok => (e.sa_token /\ e.ca_cert) }

NoResult ==
    [status |-> "none", credential |-> "None", identity |-> "none",
     host |-> "None", ssl_ca_cert |-> "None", loads |-> <<>>,
     token_auth_only |-> FALSE, seen |-> "None"]

\* set_auth_context on a global variable instead of a ContextVar.
set_auth_context_global(ctx, r, token) == [c \in DOMAIN ctx |-> token]

\* set_auth_context that leaves the stored value alone when given None.
set_auth_context_ignores_none(ctx, r, token) ==
    IF token = "None" THEN ctx ELSE [ctx EXCEPT ![r] = token]

\* _current_token.set(token) in the execution context of request r.
set_auth_context(ctx, r, token) == [ctx EXCEPT ![r] = token]

\* try: load_incluster_config()  except ConfigException: load_kube_config()
\* Returns whether a configuration was loaded, the new process-wide default
\* configuration and the loaders that were called.
load_config(e, dc) ==
    IF e.incluster_ok
    THEN [ok |-> TRUE, dc |-> "incluster",
          loads |-> <<"load_incluster_config">>]
    ELSE IF e.kubeconfig_ok
    THEN [ok |-> TRUE, dc |-> "kubeconfig",
          loads |-> <<"load_incluster_config", "load_kube_config">>]
    ELSE [ok |-> FALSE, dc |-> dc,
          loads |-> <<"load_incluster_config", "load_kube_config">>]

\* create_k8s_client_from_token that takes the credential of the loaded
\* default configuration in the local branch.
create_k8s_client_from_token_default(jwt_token, e, dc) ==
    IF e.sa_token
    THEN [res |-> [status |-> "client", credential |-> jwt_token,
                   identity |-> "token",
                   host |-> "https://kubernetes.default.svc",
                   ssl_ca_cert |-> IF e.ca_cert THEN "sa_ca_crt" ELSE "None",
                   loads |-> <<>>],
          dc |-> dc]
    ELSE LET l == load_config(e, dc) IN
         IF l.ok
         THEN [res |-> [status |-> "client", credential |-> "None",
                        identity |-> l.dc,
                        host |-> l.dc, ssl_ca_cert |-> l.dc,
                        loads |-> l.loads],
               dc |-> l.dc]
         ELSE [res |-> [status |-> "ConfigException", credential |-> "None",
                        identity |-> "none", host |-> "None",
                        ssl_ca_cert |-> "None", loads |-> l.loads],
               dc |-> l.dc]

\* create_k8s_client_from_token(jwt_token): a fresh Configuration whose host
\* and CA come from the service-account files or from the loaded default
\* configuration, and whose only credential is the bearer token.
create_k8s_client_from_token(jwt_token, e, dc) ==
    IF e.sa_token
    THEN [res |-> [status |-> "client", credential |-> jwt_token,
                   identity |-> "token",
                   host |-> "https://kubernetes.default.svc",
                   ssl_ca_cert |-> IF e.ca_cert THEN "sa_ca_crt" ELSE "None",
                   loads |-> <<>>],
          dc |-> dc]
    ELSE LET l == load_config(e, dc) IN
         IF l.ok
         THEN [res |-> [status |-> "client", credential |-> jwt_token,
                        identity |-> "token",
                        host |-> l.dc, ssl_ca_cert |-> l.dc,
                        loads |-> l.loads],
               dc |-> l.dc]
         ELSE [res |-> [status |-> "ConfigException", credential |-> "None",
                        identity |-> "none", host |-> "None",
                        ssl_ca_cert |-> "None", loads |-> l.loads],
               dc |-> l.dc]

\* create_k8s_client_from_kubeconfig(): ApiClient() on the loaded default
\* configuration, i.e. under the identity that configuration carries.
create_k8s_client_from_kubeconfig(e, dc) ==
    LET l == load_config(e, dc) IN
    IF l.ok
    THEN [res |-> [status |-> "client", credential |-> "None",
                   identity |-> l.dc, host |-> l.dc, ssl_ca_cert |-> l.dc,
                   loads |-> l.loads],
          dc |-> l.dc]
    ELSE [res |-> [status |-> "ConfigException", credential |-> "None",
                   identity |-> "none", host |-> "None",
                   ssl_ca_cert |-> "None", loads |-> l.loads],
          dc |-> l.dc]

\* create_k8s_client without the token_auth_only test: always falls back.
create_k8s_client_always_fallback(jwt_token, token_auth_only, e, dc) ==
    IF Truthy(jwt_token)
    THEN create_k8s_client_from_token(jwt_token, e, dc)
    ELSE create_k8s_client_from_kubeconfig(e, dc)

\* create_k8s_client that never falls back.
create_k8s_client_never_fallback(jwt_token, token_auth_only, e, dc) ==
    IF Truthy(jwt_token)
    THEN create_k8s_client_from_token(jwt_token, e, dc)
    ELSE [res |-> [status |-> "ValueError", credential |-> "None",
                   identity |-> "none", host |-> "None",
                   ssl_ca_cert |-> "None", loads |-> <<>>],
          dc |-> dc]

\* create_k8s_client(token_auth_only), jwt_token = _current_token.get().
create_k8s_client(jwt_token, token_auth_only, e, dc) ==
    IF Truthy(jwt_token)
    THEN create_k8s_client_from_token(jwt_token, e, dc)
    ELSE IF ~token_auth_only
    THEN create_k8s_client_from_kubeconfig(e, dc)
    ELSE [res |-> [status |-> "ValueError", credential |-> "None",
                   identity |-> "none", host |-> "None",
                   ssl_ca_cert |-> "None", loads |-> <<>>],
          dc |-> dc]

(***************************************************************************)
(* server.py: AuthHeaderMiddleware.dispatch and the handler it wraps       *)
(***************************************************************************)
\* The spellings a client may give the header name.
HeaderNames == {"x-auth-token", "X-Auth-Token", "X-AUTH-TOKEN"}

\* str.lower() on header names.
LowerName(name) ==
    IF name \in HeaderNames THEN "x-auth-token" ELSE name

\* request.headers of a request sent with the header under the given
\* spelling ("None": the request has no such header).
request_headers(name, value) ==
    IF value = "None" THEN {}
    ELSE {[sent |-> name, key |-> LowerName(name), value |-> value]}

\* A lookup that compares the name as the client spelled it.
headers_get_case_sensitive(headers, key) ==
    IF \E h \in headers : h.sent = key
    THEN (CHOOSE h \in headers : h.sent = key).value
    ELSE "None"

\* request.headers.get(key): the lookup is by lower-cased name.
headers_get(headers, key) ==
    IF \E h \in headers : h.key = LowerName(key)
    THEN (CHOOSE h \in headers : h.key = LowerName(key)).value
    ELSE "None"

\* Python's `a or b`.
py_or(a, b) == IF Truthy(a) THEN a ELSE b

\* token = headers.get("x-auth-token") or headers.get("X-Auth-Token");
\* auth.set_auth_context(token=token)
Dispatch(r) ==
    /\ pc[r] = "start"
    /\ \E name \in HeaderNames :
         LET headers == request_headers(name, hdr[r])
             token == py_or(headers_get(headers, "x-auth-token"),
                            headers_get(headers, "X-Auth-Token"))
         IN current_token' = set_auth_context(current_token, r, token)
    /\ pc' = [pc EXCEPT ![r] = "handler"]
    /\ UNCHANGED <<env, default_config, hdr, result, exit, clears>>
    /\ UNCHANGED nonAuthVars

\* The handler builds a control-plane client.
CreateClient(r, token_auth_only) ==
    /\ pc[r] = "handler"
    /\ LET jwt_token == current_token[r]
           c == create_k8s_client(jwt_token, token_auth_only, env,
                                  default_config)
       IN /\ result' = [result EXCEPT ![r] =
                 [status |-> c.res.status, credential |-> c.res.credential,
                  identity |-> c.res.identity, host |-> c.res.host,
                  ssl_ca_cert |-> c.res.ssl_ca_cert, loads |-> c.res.loads,
                  token_auth_only |-> token_auth_only, seen |-> jwt_token]]
          /\ default_config' = c.dc
    /\ UNCHANGED <<env, hdr, pc, current_token, exit, clears>>
    /\ UNCHANGED nonAuthVars

\* A dispatch without try/finally: only a normal return reaches the clear.
HandlerExit_clear_on_return_only(r, how) ==
    /\ pc[r] = "handler"
    /\ exit' = [exit EXCEPT ![r] = how]
    /\ pc' = [pc EXCEPT ![r] = IF how = "return" THEN "finally" ELSE "done"]
    /\ UNCHANGED <<env, default_config, hdr, current_token, result, clears>>
    /\ UNCHANGED nonAuthVars

\* response = await call_next(request) finishes: returns, raises or is
\* cancelled.
HandlerExit(r, how) ==
    /\ pc[r] = "handler"
    /\ exit' = [exit EXCEPT ![r] = how]
    /\ pc' = [pc EXCEPT ![r] = "finally"]
    /\ UNCHANGED <<env, default_config, hdr, current_token, result, clears>>
    /\ UNCHANGED nonAuthVars

\* finally: auth.set_auth_context(None)
Finally(r) ==
    /\ pc[r] = "finally"
    /\ current_token' = set_auth_context(current_token, r, "None")
    /\ clears' = [clears EXCEPT ![r] = @ + 1]
    /\ pc' = [pc EXCEPT ![r] = "done"]
    /\ UNCHANGED <<env, default_config, hdr, result, exit>>
    /\ UNCHANGED nonAuthVars

\* The worker takes its next request in the execution context that served
\* the previous one: dispatch is entered again.
NextRequest(r, h) ==
    /\ pc[r] = "done"
    /\ Len(served) < MaxServed
    /\ served' = Append(served, hdr[r])
    /\ hdr' = [hdr EXCEPT ![r] = h]
    /\ pc' = [pc EXCEPT ![r] = "start"]
    /\ result' = [result EXCEPT ![r] = NoResult]
    /\ exit' = [exit EXCEPT ![r] = "none"]
    /\ clears' = [clears EXCEPT ![r] = 0]
    /\ UNCHANGED <<env, default_config, current_token>>
    /\ UNCHANGED <<sendVars, toolVars, k8sVars, discVars>>

(***************************************************************************)
(* lib/a2a.py                                                              *)
(***************************************************************************)
AgentUrls == {"http://a.test", "http://b.test"}
EXTENDED_AGENT_CARD_PATH == "/.well-known/agent.json"
PublicCardPath == "/.well-known/agent.json"
Chunks == {"c1", "c2"}
SupportsValues == {"True", "False", "None"}
ExtendedFetchErrors == {"ext_network", "ext_auth_rejected", "ext_timeout",
                        "ext_malformed"}
PublicFetchErrors == {"http_404", "pub_network"}
SendErrors == {"send_transport", "send_protocol"}
StreamErrors == {"stream_broken"}

NoCard == [tier |-> "None", url |-> "None", supports |-> "None"]
NoOutcome == [status |-> "pending", text |-> <<>>, cause |-> "None",
              body |-> <<>>]

\* chunk.model_dump(mode="json", exclude_none=True)
model_dump(chunk) == <<"dict", chunk>>
\* json.dumps(chunk, indent=2)
json_dumps(d) == <<"json", d>>

RECURSIVE dumps_all(_)
dumps_all(s) ==
    IF s = <<>> THEN <<>>
    ELSE <<json_dumps(Head(s))>> \o dumps_all(Tail(s))

\* The extended-card test without the card's declaration.
should_fetch_extended_ignoring_card(token, uec, card) ==
    Truthy(token) /\ uec

\* auth_token and use_extended_card and
\* public_card.supports_authenticated_extended_card
should_fetch_extended(token, uec, card) ==
    Truthy(token) /\ uec /\ Truthy(card.supports)

\* {"Authorization": f"Bearer {auth_token}"}
auth_headers_dict(token) == <<"Bearer", token>>

\* The extended card is fetched but the public one stays selected.
select_extended_card_keeps_public(public, extended) == public

\* final_agent_card_to_use = extended_card
select_extended_card(public, extended) == extended

\* result_chunks.insert(0, ...) instead of append.
collect_chunk_prepend(chunks, chunk) == <<model_dump(chunk)>> \o chunks

\* result_chunks.append(chunk.model_dump(mode="json", exclude_none=True))
collect_chunk(chunks, chunk) == Append(chunks, model_dump(chunk))

\* One request on the wire: the step of the call that issued it, the peer
\* operation, its arguments, the card the client was bound to, and how the
\* peer answered ("ok", "open", "closed" or the cause of the failure).
NetOp(step, op, path, headers, card, reply) ==
    [step |-> step, op |-> op, url |-> agent_url, path |-> path,
     headers |-> headers, card |-> card, reply |-> reply]

\* str() of a Python bool.
PyBool(b) == IF b THEN "True" ELSE "False"

\* server.py: a2a.send_message_to_agent(agent_url, message,
\* use_extended_card): the third positional parameter of the a2a function
\* is auth_token, and its use_extended_card keeps the default False.
tool_call_args(uec, token) ==
    [auth_token |-> PyBool(uec), use_extended_card |-> FALSE]

\* The tools send_message_to_agent / send_streaming_message_to_agent of
\* server.py call the a2a function of the same name.
ToolCall ==
    /\ s_pc = "tool"
    /\ LET args == tool_call_args(tool_use_extended_card, request_token)
       IN /\ auth_token' = args.auth_token
          /\ use_extended_card' = args.use_extended_card
    /\ s_pc' = "fetch_public"
    /\ UNCHANGED <<s_kind, agent_url, public_card, final_agent_card_to_use,
                   net, delivered, result_chunks, outcome>>
    /\ UNCHANGED nonSendVars

\* public_card = await resolver.get_agent_card() succeeds; the code then
\* selects the public card and evaluates the extended-card test.
FetchPublicOk(supports) ==
    /\ s_pc = "fetch_public"
    /\ net' = Append(net, NetOp("public", "get_agent_card", PublicCardPath,
                                <<>>, "None", "ok"))
    /\ LET card == [tier |-> "public", url |-> agent_url,
                    supports |-> supports]
       IN /\ public_card' = card
          /\ final_agent_card_to_use' = card
          /\ s_pc' = IF should_fetch_extended(auth_token, use_extended_card,
                                              card)
                     THEN "fetch_extended" ELSE "send"
    /\ UNCHANGED <<s_kind, agent_url, auth_token, use_extended_card,
                   delivered, result_chunks, outcome>>
    /\ UNCHANGED nonSendVars

\* A failed public fetch that is ignored: the call goes on to the send.
FetchPublicFail_falls_through(cause) ==
    /\ s_pc = "fetch_public"
    /\ net' = Append(net, NetOp("public", "get_agent_card", PublicCardPath,
                                <<>>, "None", cause))
    /\ s_pc' = "send"
    /\ UNCHANGED <<s_kind, agent_url, auth_token, use_extended_card,
                   public_card, final_agent_card_to_use, delivered,
                   result_chunks, outcome>>
    /\ UNCHANGED nonSendVars

\* public_card = await resolver.get_agent_card() raises:
\* raise Exception(f"Failed to fetch agent card from {agent_url}: {e}")
FetchPublicFail(cause) ==
    /\ s_pc = "fetch_public"
    /\ net' = Append(net, NetOp("public", "get_agent_card", PublicCardPath,
                                <<>>, "None", cause))
    /\ outcome' = [status |-> "raised",
                   text |-> <<"Failed to fetch agent card from", agent_url>>,
                   cause |-> cause, body |-> <<>>]
    /\ s_pc' = "done"
    /\ UNCHANGED <<s_kind, agent_url, auth_token, use_extended_card,
                   public_card, final_agent_card_to_use, delivered,
                   result_chunks>>
    /\ UNCHANGED nonSendVars

\* extended_card = await resolver.get_agent_card(relative_card_path=...,
\* http_kwargs={"headers": auth_headers_dict}) succeeds.
FetchExtendedOk ==
    /\ s_pc = "fetch_extended"
    /\ net' = Append(net, NetOp("extended", "get_agent_card",
                                EXTENDED_AGENT_CARD_PATH,
                                auth_headers_dict(auth_token), "None", "ok"))
    /\ final_agent_card_to_use' =
           select_extended_card(public_card,
               [tier |-> "extended", url |-> agent_url,
                supports |-> public_card.supports])
    /\ s_pc' = "send"
    /\ UNCHANGED <<s_kind, agent_url, auth_token, use_extended_card,
                   public_card, delivered, result_chunks, outcome>>
    /\ UNCHANGED nonSendVars

\* A failed extended fetch that reaches the outer except clause.
FetchExtendedFail_propagates(cause) ==
    /\ s_pc = "fetch_extended"
    /\ net' = Append(net, NetOp("extended", "get_agent_card",
                                EXTENDED_AGENT_CARD_PATH,
                                auth_headers_dict(auth_token), "None",
                                cause))
    /\ outcome' = [status |-> "raised",
                   text |-> <<"Failed to fetch agent card from", agent_url>>,
                   cause |-> cause, body |-> <<>>]
    /\ s_pc' = "done"
    /\ UNCHANGED <<s_kind, agent_url, auth_token, use_extended_card,
                   public_card, final_agent_card_to_use, delivered,
                   result_chunks>>
    /\ UNCHANGED nonSendVars

\* The extended fetch raises: except Exception: pass
FetchExtendedFail(cause) ==
    /\ s_pc = "fetch_extended"
    /\ net' = Append(net, NetOp("extended", "get_agent_card",
                                EXTENDED_AGENT_CARD_PATH,
                                auth_headers_dict(auth_token), "None",
                                cause))
    /\ s_pc' = "send"
    /\ UNCHANGED <<s_kind, agent_url, auth_token, use_extended_card,
                   public_card, final_agent_card_to_use, delivered,
                   result_chunks, outcome>>
    /\ UNCHANGED nonSendVars

\* client = A2AClient(agent_card=final_agent_card_to_use);
\* response = await client.send_message(request) succeeds.
SendMessageOk ==
    /\ s_pc = "send"
    /\ s_kind = "unary"
    /\ net' = Append(net, NetOp("send", "send_message", "None", <<>>,
                                final_agent_card_to_use.tier, "ok"))
    /\ outcome' = [status |-> "returned",
                   text |-> <<"Response from", agent_url>>,
                   cause |-> "None",
                   body |-> <<json_dumps("response")>>]
    /\ s_pc' = "done"
    /\ UNCHANGED <<s_kind, agent_url, auth_token, use_extended_card,
                   public_card, final_agent_card_to_use, delivered,
                   result_chunks>>
    /\ UNCHANGED nonSendVars

\* A failed send that is tried once more before giving up.
SendMessageFail_retries(cause) ==
    /\ s_pc = "send"
    /\ s_kind = "unary"
    /\ net' = Append(net, NetOp("send", "send_message", "None", <<>>,
                                final_agent_card_to_use.tier, cause))
    /\ IF \E i \in DOMAIN net : net[i].step = "send"
       THEN /\ outcome' = [status |-> "raised",
                           text |-> <<"Failed to send message to agent">>,
                           cause |-> cause, body |-> <<>>]
            /\ s_pc' = "done"
       ELSE UNCHANGED <<outcome, s_pc>>
    /\ UNCHANGED <<s_kind, agent_url, auth_token, use_extended_card,
                   public_card, final_agent_card_to_use, delivered,
                   result_chunks>>
    /\ UNCHANGED nonSendVars

\* client.send_message raises:
\* raise Exception(f"Failed to send message to agent: {e}")
SendMessageFail(cause) ==
    /\ s_pc = "send"
    /\ s_kind = "unary"
    /\ net' = Append(net, NetOp("send", "send_message", "None", <<>>,
                                final_agent_card_to_use.tier, cause))
    /\ outcome' = [status |-> "raised",
                   text |-> <<"Failed to send message to agent">>,
                   cause |-> cause, body |-> <<>>]
    /\ s_pc' = "done"
    /\ UNCHANGED <<s_kind, agent_url, auth_token, use_extended_card,
                   public_card, final_agent_card_to_use, delivered,
                   result_chunks>>
    /\ UNCHANGED nonSendVars

\* stream_response = client.send_message_streaming(streaming_request);
\* result_chunks = []; the loop starts and the request goes out.
StreamOpen ==
    /\ s_pc = "send"
    /\ s_kind = "streaming"
    /\ net' = Append(net, NetOp("send", "send_message_streaming", "None",
                                <<>>, final_agent_card_to_use.tier, "open"))
    /\ result_chunks' = <<>>
    /\ s_pc' = "streaming"
    /\ UNCHANGED <<s_kind, agent_url, auth_token, use_extended_card,
                   public_card, final_agent_card_to_use, delivered, outcome>>
    /\ UNCHANGED nonSendVars

\* A loop that reads the stream before the streaming request was issued.
StreamChunk_before_open(chunk) ==
    /\ s_pc \in {"send", "streaming"}
    /\ s_kind = "streaming"
    /\ Len(delivered) < MaxChunks
    /\ delivered' = Append(delivered, chunk)
    /\ result_chunks' = collect_chunk(result_chunks, chunk)
    /\ UNCHANGED <<s_pc, s_kind, agent_url, auth_token, use_extended_card,
                   public_card, final_agent_card_to_use, net, outcome>>
    /\ UNCHANGED nonSendVars

\* async for chunk in stream_response: one chunk arrives and is collected.
StreamChunk(chunk) ==
    /\ s_pc = "streaming"
    /\ Len(delivered) < MaxChunks
    /\ delivered' = Append(delivered, chunk)
    /\ result_chunks' = collect_chunk(result_chunks, chunk)
    /\ UNCHANGED <<s_pc, s_kind, agent_url, auth_token, use_extended_card,
                   public_card, final_agent_card_to_use, net, outcome>>
    /\ UNCHANGED nonSendVars

\* The peer closes the stream: the loop ends and the joined dumps of
\* result_chunks are returned.
StreamClose ==
    /\ s_pc = "streaming"
    /\ outcome' = [status |-> "returned",
                   text |-> <<"Streaming response from", agent_url>>,
                   cause |-> "None",
                   body |-> dumps_all(result_chunks)]
    /\ s_pc' = "done"
    /\ net' = [net EXCEPT ![Len(net)].reply = "closed"]
    /\ UNCHANGED <<s_kind, agent_url, auth_token, use_extended_card,
                   public_card, final_agent_card_to_use, delivered,
                   result_chunks>>
    /\ UNCHANGED nonSendVars

\* A stream error that returns what was collected so far.
StreamError_returns_partial(cause) ==
    /\ s_pc = "streaming"
    /\ outcome' = [status |-> "returned",
                   text |-> <<"Streaming response from", agent_url>>,
                   cause |-> "None",
                   body |-> dumps_all(result_chunks)]
    /\ s_pc' = "done"
    /\ net' = [net EXCEPT ![Len(net)].reply = cause]
    /\ UNCHANGED <<s_kind, agent_url, auth_token, use_extended_card,
                   public_card, final_agent_card_to_use, delivered,
                   result_chunks>>
    /\ UNCHANGED nonSendVars

\* The stream raises inside the loop:
\* raise Exception(f"Failed to send streaming message to agent: {e}")
StreamError(cause) ==
    /\ s_pc = "streaming"
    /\ outcome' = [status |-> "raised",
                   text |-> <<"Failed to send streaming message to agent">>,
                   cause |-> cause, body |-> <<>>]
    /\ s_pc' = "done"
    /\ net' = [net EXCEPT ![Len(net)].reply = cause]
    /\ UNCHANGED <<s_kind, agent_url, auth_token, use_extended_card,
                   public_card, final_agent_card_to_use, delivered,
                   result_chunks>>
    /\ UNCHANGED nonSendVars

(***************************************************************************)
(* tools/k8s_readonly_server/server.py                                     *)
(***************************************************************************)
Namespaces == {"default", "team-a", "kube-system"}

\* The tools and the control-plane call each one makes.
ToolApi ==
    [get_pods |-> "list_namespaced_pod",
     get_pod_logs |-> "read_namespaced_pod_log",
     get_events |-> "list_namespaced_event",
     get_deployments |-> "list_namespaced_deployment",
     get_services |-> "list_namespaced_service",
     describe_pod |-> "read_namespaced_pod"]

Tools == DOMAIN ToolApi

\* Values of the ALLOWED_NAMESPACES environment variable, as the parts
\* between its commas; set = FALSE when the variable is not set.
AllowedEnvValues ==
    { [set |-> FALSE, parts |-> <<>>],
      [set |-> TRUE, parts |-> <<"">>],
      [set |-> TRUE, parts |-> <<"default">>],
      [set |-> TRUE, parts |-> <<"team-a">>],
      [set |-> TRUE, parts |-> <<"default", "team-a">>] }

\* os.getenv("ALLOWED_NAMESPACES", "default").split(",")
getenv_split(e) == IF e.set THEN e.parts ELSE <<"default">>

\* `x in lst`
In(x, lst) == \E i \in DOMAIN lst : lst[i] = x

NoToolOut == [status |-> "pending", text |-> "None"]

\* validate_namespace(namespace): the function returns on its first
\* statement, for every argument; the membership test after it never runs.
validate_namespace(namespace, allowed) == "returned"

\* validate_namespace(namespace) at the head of each tool.
ValidateNamespace ==
    /\ k_pc = "validate"
    /\ validate_namespace(k_namespace, ALLOWED_NAMESPACES) = "returned"
    /\ k_pc' = "call"
    /\ UNCHANGED <<ALLOWED_NAMESPACES, k_tool, k_namespace, k_calls, k_out>>
    /\ UNCHANGED <<authVars, sendVars, toolVars, served, discVars>>

\* The tool's control-plane call answers; the tool returns its text.
ControlPlaneOk ==
    /\ k_pc = "call"
    /\ k_calls' = Append(k_calls,
                         [api |-> ToolApi[k_tool], namespace |-> k_namespace])
    /\ k_out' = [status |-> "returned", text |-> k_tool]
    /\ k_pc' = "done"
    /\ UNCHANGED <<ALLOWED_NAMESPACES, k_tool, k_namespace>>
    /\ UNCHANGED <<authVars, sendVars, toolVars, served, discVars>>

\* The control-plane call raises ApiException:
\* raise Exception(f"Kubernetes API error: {e.reason}")
ControlPlaneApiException ==
    /\ k_pc = "call"
    /\ k_calls' = Append(k_calls,
                         [api |-> ToolApi[k_tool], namespace |-> k_namespace])
    /\ k_out' = [status |-> "Exception", text |-> "Kubernetes API error"]
    /\ k_pc' = "done"
    /\ UNCHANGED <<ALLOWED_NAMESPACES, k_tool, k_namespace>>
    /\ UNCHANGED <<authVars, sendVars, toolVars, served, discVars>>

(***************************************************************************)
(* lib/discovery.py                                                        *)
(* Text that is searched (names, descriptions, filters) is a sequence of   *)
(* one-character strings; NoneStr is None where a text may be None.        *)
(***************************************************************************)
NoneStr == <<"None">>

\* str.lower() on one character and on a text.
LowerChar(c) ==
    CASE c = "A" -> "a"
      [] c = "B" -> "b"
      [] c = "Z" -> "z"
      [] OTHER -> c

Lower(t) == [i \in DOMAIN t |-> LowerChar(t[i])]

\* `f in t` for texts.
IsSubstring(f, t) ==
    \E i \in 1..(Len(t) - Len(f) + 1) : SubSeq(t, i, i + Len(f) - 1) = f

\* bool(t) for a text or None.
TruthyText(t) == t # NoneStr /\ t # <<>>

\* The AgentCard resources a cluster may hold.  has_card = FALSE: the
\* resource has no status.card yet.
AgentCardPool ==
    { [name |-> <<"w">>, namespace |-> "default", has_card |-> TRUE,
       card_name |-> <<"A", "b">>, card_description |-> <<"z", "a">>,
       skills |-> << [name |-> <<"b">>, description |-> <<"a", "b">>] >>],
      [name |-> <<"d">>, namespace |-> "team-a", has_card |-> TRUE,
       card_name |-> <<"z">>, card_description |-> <<"B", "a">>,
       skills |-> << >>],
      [name |-> <<"c">>, namespace |-> "default", has_card |-> TRUE,
       card_name |-> << >>, card_description |-> << >>,
       skills |-> << [name |-> <<"z", "z">>, description |-> <<"A", "B">>],
                     [name |-> <<"a", "b">>, description |-> << >>] >>],
      [name |-> <<"a", "b">>, namespace |-> "team-a", has_card |-> FALSE,
       card_name |-> << >>, card_description |-> << >>,
       skills |-> << >>] }

\* A cluster lists its resources in some order, each once.
Clusters ==
    { c \in UNION { [1..n -> AgentCardPool] : n \in 0..MaxAgents } :
        \A i, j \in DOMAIN c : i # j => c[i] # c[j] }

Filters == { NoneStr, << >>, <<"a", "B">>, <<"b">>, <<"z">>,
             <<"z", "a", "z">> }

NamespaceArgs == {"None", "", "default", "team-a"}

\* ApiException statuses the control plane answers with.
ApiStatuses == {404, 403, 500}

NoDiscOut ==
    [status |-> "pending", kind |-> "none", error |-> <<>>,
     scope_msg |-> <<>>, filter_line |-> NoneStr, rows |-> <<>>, total |-> 0]

\* get_namespace_scope where a namespace argument wins over all_namespaces.
get_namespace_scope_namespace_first(namespace, all_namespaces) ==
    IF Truthy(namespace)
    THEN [value |-> namespace, msg |-> <<"namespace", namespace>>]
    ELSE IF all_namespaces
    THEN [value |-> "None", msg |-> <<"all namespaces">>]
    ELSE [value |-> "default", msg |-> <<"namespace", "default">>]

\* get_namespace_scope(namespace, all_namespaces)
get_namespace_scope(namespace, all_namespaces) ==
    IF all_namespaces
    THEN [value |-> "None", msg |-> <<"all namespaces">>]
    ELSE IF Truthy(namespace)
    THEN [value |-> namespace, msg |-> <<"namespace", namespace>>]
    ELSE [value |-> "default", msg |-> <<"namespace", "default">>]

\* discover_agent_cards: the list call chosen for a scope.
list_call(namespace) ==
    IF namespace = "None"
    THEN [api |-> "list_cluster_custom_object", namespace |-> "None"]
    ELSE [api |-> "list_namespaced_custom_object", namespace |-> namespace]

\* result.get("items", []) of a list call the control plane answers.
list_items(cluster, call) ==
    IF call.api = "list_cluster_custom_object"
    THEN cluster
    ELSE LET InScope(cr) == cr.namespace = call.namespace
         IN SelectSeq(cluster, InScope)

\* discover_agent_cards' except ApiException clause that lets the raised
\* error reach the except Exception clause below it.
discover_agent_cards_error_rewrapped(status) ==
    <<"Failed to discover agent cards">> \o
    ( IF status = 404 THEN <<"AgentCard CRD not found">>
      ELSE IF status = 403
      THEN <<"Permission denied to access AgentCard resources">>
      ELSE <<"Kubernetes API error">> )

\* discover_agent_cards: except ApiException.
discover_agent_cards_error(status) ==
    IF status = 404 THEN <<"AgentCard CRD not found">>
    ELSE IF status = 403
    THEN <<"Permission denied to access AgentCard resources">>
    ELSE <<"Kubernetes API error">>

\* get_agent_details: except ApiException.
get_agent_details_error(status) ==
    IF status = 404 THEN <<"AgentCard not found in namespace">>
    ELSE IF status = 403
    THEN <<"Permission denied to access AgentCard">>
    ELSE <<"Kubernetes API error">>

\* The except Exception clause of the function that made the call.
failed_to(op, cause) ==
    IF op = "get_agent_details"
    THEN <<"Failed to get AgentCard details", cause>>
    ELSE <<"Failed to discover agent cards", cause>>

\* list_agents wraps everything it raises; the other two add nothing.
outer_wrap(op, error) ==
    IF op = "list_agents"
    THEN <<"Error creating agent summary">> \o error
    ELSE error

\* get_agents_data: one agent_info per AgentCard resource.
agent_info(cr) ==
    [agentcard_name |-> cr.name,
     namespace |-> cr.namespace,
     agent_name |-> IF cr.has_card THEN cr.card_name ELSE << >>,
     description |-> IF cr.has_card THEN cr.card_description ELSE << >>,
     skills |-> IF cr.has_card THEN cr.skills ELSE << >>]

get_agents_data(items) == [i \in DOMAIN items |-> agent_info(items[i])]

\* `(x or "")`
or_empty(t) == IF TruthyText(t) THEN t ELSE << >>

\* for skill in agent.get("skills", []): ... break
RECURSIVE skills_loop(_, _, _)
skills_loop(skills, i, filter_lower) ==
    IF i > Len(skills) THEN FALSE
    ELSE IF \/ IsSubstring(filter_lower, Lower(skills[i].name))
            \/ IsSubstring(filter_lower, Lower(skills[i].description))
    THEN TRUE
    ELSE skills_loop(skills, i + 1, filter_lower)

\* The filter loop without its `continue` statements: an agent is appended
\* once per field group that matches.
RECURSIVE filter_loop_no_continue(_, _, _)
filter_loop_no_continue(agents, i, filter_lower) ==
    IF i > Len(agents) THEN << >>
    ELSE LET agent == agents[i]
             by_name == IF IsSubstring(filter_lower,
                                       Lower(or_empty(agent.agent_name)))
                        THEN <<agent>> ELSE << >>
             by_desc == IF IsSubstring(filter_lower,
                                       Lower(or_empty(agent.description)))
                        THEN <<agent>> ELSE << >>
             by_skill == IF skills_loop(agent.skills, 1, filter_lower)
                         THEN <<agent>> ELSE << >>
         IN by_name \o by_desc \o by_skill
            \o filter_loop_no_continue(agents, i + 1, filter_lower)

\* for agent in agents: ... filtered_agents.append(agent)
RECURSIVE filter_loop(_, _, _)
filter_loop(agents, i, filter_lower) ==
    IF i > Len(agents) THEN << >>
    ELSE LET agent == agents[i]
             keep ==
                 IF IsSubstring(filter_lower,
                                Lower(or_empty(agent.agent_name)))
                 THEN TRUE
                 ELSE IF IsSubstring(filter_lower,
                                     Lower(or_empty(agent.description)))
                 THEN TRUE
                 ELSE skills_loop(agent.skills, 1, filter_lower)
         IN (IF keep THEN <<agent>> ELSE << >>)
            \o filter_loop(agents, i + 1, filter_lower)

\* One table row: the resource it stands for and the name shown,
\* agent["agent_name"] or agent["agentcard_name"].
table_row(agent) ==
    [agentcard_name |-> agent.agentcard_name,
     namespace |-> agent.namespace,
     shown |-> IF TruthyText(agent.agent_name) THEN agent.agent_name
               ELSE agent.agentcard_name]

table_rows(agents) == [i \in DOMAIN agents |-> table_row(agents[i])]

\* list_agents, from the agents get_agents_data returned.
list_agents(agents, scope_msg, filter) ==
    IF agents = << >>
    THEN [NoDiscOut EXCEPT !.status = "returned", !.kind = "no_agents",
                           !.scope_msg = scope_msg]
    ELSE IF TruthyText(filter)
    THEN LET filtered == filter_loop(agents, 1, Lower(filter))
         IN IF filtered = << >>
            THEN [NoDiscOut EXCEPT !.status = "returned",
                                   !.kind = "no_match",
                                   !.scope_msg = scope_msg,
                                   !.filter_line = filter]
            ELSE [NoDiscOut EXCEPT !.status = "returned", !.kind = "table",
                                   !.scope_msg = scope_msg,
                                   !.filter_line = filter,
                                   !.rows = table_rows(filtered),
                                   !.total = Len(filtered)]
    ELSE [NoDiscOut EXCEPT !.status = "returned", !.kind = "table",
                           !.scope_msg = scope_msg,
                           !.rows = table_rows(agents),
                           !.total = Len(agents)]

\* discover_agents, from the agents get_agents_data returned.
discover_agents(agents, scope_msg) ==
    IF agents = << >>
    THEN [NoDiscOut EXCEPT !.status = "returned", !.kind = "no_agents",
                           !.scope_msg = scope_msg]
    ELSE [NoDiscOut EXCEPT !.status = "returned", !.kind = "found",
                           !.scope_msg = scope_msg,
                           !.rows = table_rows(agents),
                           !.total = Len(agents)]

\* get_agent_details, from the resource the control plane returned.
get_agent_details(card_cr) ==
    IF ~card_cr.has_card
    THEN [NoDiscOut EXCEPT !.status = "raised",
              !.error = failed_to("get_agent_details",
                                  "has no cached card data")]
    ELSE [NoDiscOut EXCEPT !.status = "returned", !.kind = "details",
                           !.rows = <<table_row(agent_info(card_cr))>>,
                           !.total = 1]

\* The control-plane call the discovery call makes.
disc_call ==
    IF d_op = "get_agent_details"
    THEN [api |-> "get_namespaced_custom_object", namespace |-> d_namespace]
    ELSE list_call(get_namespace_scope(d_namespace, d_all_namespaces).value)

\* _get_k8s_client that demands a token: create_k8s_client(True).
DiscGetK8sClient_token_required ==
    /\ d_pc = "start"
    /\ LET c == create_k8s_client(d_token, TRUE, env, default_config)
       IN /\ d_client' =
                 [status |-> c.res.status, credential |-> c.res.credential,
                  identity |-> c.res.identity, host |-> c.res.host,
                  ssl_ca_cert |-> c.res.ssl_ca_cert, loads |-> c.res.loads,
                  token_auth_only |-> TRUE, seen |-> d_token]
          /\ default_config' = c.dc
          /\ IF c.res.status = "client"
             THEN /\ d_pc' = "call"
                  /\ d_out' = d_out
             ELSE /\ d_pc' = "done"
                  /\ d_out' = [NoDiscOut EXCEPT !.status = "raised",
                         !.error = outer_wrap(d_op,
                                       failed_to(d_op, c.res.status))]
    /\ UNCHANGED <<d_op, d_namespace, d_all_namespaces, d_filter, d_name,
                   d_cluster, d_token, d_calls>>
    /\ UNCHANGED <<env, hdr, pc, current_token, result, exit, clears>>
    /\ UNCHANGED <<sendVars, toolVars, served, k8sVars>>

\* custom_api = _get_k8s_client(): auth.create_k8s_client()
DiscGetK8sClient ==
    /\ d_pc = "start"
    /\ LET c == create_k8s_client(d_token, FALSE, env, default_config)
       IN /\ d_client' =
                 [status |-> c.res.status, credential |-> c.res.credential,
                  identity |-> c.res.identity, host |-> c.res.host,
                  ssl_ca_cert |-> c.res.ssl_ca_cert, loads |-> c.res.loads,
                  token_auth_only |-> FALSE, seen |-> d_token]
          /\ default_config' = c.dc
          /\ IF c.res.status = "client"
             THEN /\ d_pc' = "call"
                  /\ d_out' = d_out
             ELSE /\ d_pc' = "done"
                  /\ d_out' = [NoDiscOut EXCEPT !.status = "raised",
                         !.error = outer_wrap(d_op,
                                       failed_to(d_op, c.res.status))]
    /\ UNCHANGED <<d_op, d_namespace, d_all_namespaces, d_filter, d_name,
                   d_cluster, d_token, d_calls>>
    /\ UNCHANGED <<env, hdr, pc, current_token, result, exit, clears>>
    /\ UNCHANGED <<sendVars, toolVars, served, k8sVars>>

\* The control plane answers the call.
DiscApiOk ==
    /\ d_pc = "call"
    /\ d_op = "get_agent_details" =>
          \E i \in DOMAIN d_cluster :
              /\ d_cluster[i].name = d_name
              /\ d_cluster[i].namespace = d_namespace
    /\ d_calls' = Append(d_calls, [call |-> disc_call, reply |-> "ok",
                                   status |-> 200])
    /\ d_out' =
         IF d_op = "get_agent_details"
         THEN get_agent_details(
                 d_cluster[CHOOSE i \in DOMAIN d_cluster :
                              /\ d_cluster[i].name = d_name
                              /\ d_cluster[i].namespace = d_namespace])
         ELSE LET scope == get_namespace_scope(d_namespace, d_all_namespaces)
                  agents == get_agents_data(list_items(d_cluster, disc_call))
              IN IF d_op = "list_agents"
                 THEN list_agents(agents, scope.msg, d_filter)
                 ELSE discover_agents(agents, scope.msg)
    /\ d_pc' = "done"
    /\ UNCHANGED <<d_op, d_namespace, d_all_namespaces, d_filter, d_name,
                   d_cluster, d_token, d_client>>
    /\ UNCHANGED <<authVars, sendVars, toolVars, served, k8sVars>>

\* The control plane rejects the call: ApiException with a status.
DiscApiException(status) ==
    /\ d_pc = "call"
    /\ d_calls' = Append(d_calls, [call |-> disc_call,
                                   reply |-> "ApiException",
                                   status |-> status])
    /\ d_out' = [NoDiscOut EXCEPT !.status = "raised",
           !.error = outer_wrap(d_op,
                        IF d_op = "get_agent_details"
                        THEN get_agent_details_error(status)
                        ELSE discover_agent_cards_error(status))]
    /\ d_pc' = "done"
    /\ UNCHANGED <<d_op, d_namespace, d_all_namespaces, d_filter, d_name,
                   d_cluster, d_token, d_client>>
    /\ UNCHANGED <<authVars, sendVars, toolVars, served, k8sVars>>

\* The call fails with an exception that is not an ApiException (the
\* control plane cannot be reached).
DiscOtherException ==
    /\ d_pc = "call"
    /\ d_calls' = Append(d_calls, [call |-> disc_call,
                                   reply |-> "Exception", status |-> 0])
    /\ d_out' = [NoDiscOut EXCEPT !.status = "raised",
           !.error = outer_wrap(d_op, failed_to(d_op, "unreachable"))]
    /\ d_pc' = "done"
    /\ UNCHANGED <<d_op, d_namespace, d_all_namespaces, d_filter, d_name,
                   d_cluster, d_token, d_client>>
    /\ UNCHANGED <<authVars, sendVars, toolVars, served, k8sVars>>

(***************************************************************************)
(* Specifications                                                          *)
(***************************************************************************)
AuthInit ==
    /\ env \in Environments
    /\ default_config = "unset"
    /\ hdr \in [Requests -> HeaderValues]
    /\ pc = [r \in Requests |-> "start"]
    /\ current_token = [r \in Requests |-> "None"]
    /\ result = [r \in Requests |-> NoResult]
    /\ exit = [r \in Requests |-> "none"]
    /\ clears = [r \in Requests |-> 0]

\* No request in the middleware (the send specification).
AuthIdle ==
    /\ env = [sa_token |-> FALSE, ca_cert |-> FALSE, incluster_ok |-> FALSE,
              kubeconfig_ok |-> TRUE]
    /\ default_config = "unset"
    /\ hdr = [r \in Requests |-> "None"]
    /\ pc = [r \in Requests |-> "idle"]
    /\ current_token = [r \in Requests |-> "None"]
    /\ result = [r \in Requests |-> NoResult]
    /\ exit = [r \in Requests |-> "none"]
    /\ clears = [r \in Requests |-> 0]

SendInit ==
    /\ s_kind \in {"unary", "streaming"}
    /\ agent_url \in AgentUrls
    /\ \/ /\ entry = "lib"
          /\ s_pc = "fetch_public"
          /\ auth_token \in HeaderValues
          /\ use_extended_card \in BOOLEAN
          /\ tool_use_extended_card = FALSE
          /\ request_token = "None"
       \/ /\ entry = "tool"
          /\ s_pc = "tool"
          /\ auth_token = "None"
          /\ use_extended_card = FALSE
          /\ tool_use_extended_card \in BOOLEAN
          /\ request_token \in HeaderValues
    /\ public_card = NoCard
    /\ final_agent_card_to_use = NoCard
    /\ net = <<>>
    /\ delivered = <<>>
    /\ result_chunks = <<>>
    /\ outcome = NoOutcome

\* No send call in progress (the identity specification).
SendIdle ==
    /\ s_pc = "idle"
    /\ s_kind = "unary"
    /\ agent_url = "None"
    /\ auth_token = "None"
    /\ use_extended_card = FALSE
    /\ public_card = NoCard
    /\ final_agent_card_to_use = NoCard
    /\ net = <<>>
    /\ delivered = <<>>
    /\ result_chunks = <<>>
    /\ outcome = NoOutcome
    /\ entry = "none"
    /\ tool_use_extended_card = FALSE
    /\ request_token = "None"

\* One worker context serving requests one after another.
WorkerInit ==
    /\ env \in Environments
    /\ default_config = "unset"
    /\ hdr \in [Requests -> HeaderValues]
    /\ \A r \in Requests : r # 1 => hdr[r] = "None"
    /\ pc = [r \in Requests |-> IF r = 1 THEN "start" ELSE "idle"]
    /\ current_token = [r \in Requests |-> "None"]
    /\ result = [r \in Requests |-> NoResult]
    /\ exit = [r \in Requests |-> "none"]
    /\ clears = [r \in Requests |-> 0]

\* No read-only tool call and no discovery call in progress.
K8sIdle ==
    /\ ALLOWED_NAMESPACES = <<"default">>
    /\ k_pc = "idle"
    /\ k_tool = "get_pods"
    /\ k_namespace = "default"
    /\ k_calls = <<>>
    /\ k_out = NoToolOut

DiscIdle ==
    /\ d_pc = "idle"
    /\ d_op = "discover_agents"
    /\ d_namespace = "None"
    /\ d_all_namespaces = FALSE
    /\ d_filter = NoneStr
    /\ d_name = << >>
    /\ d_cluster = << >>
    /\ d_token = "None"
    /\ d_client = NoResult
    /\ d_calls = <<>>
    /\ d_out = NoDiscOut

\* A tool of the read-only server is called; ALLOWED_NAMESPACES was read
\* from the environment when the module was loaded.
K8sInit ==
    /\ ALLOWED_NAMESPACES \in { getenv_split(e) : e \in AllowedEnvValues }
    /\ k_pc = "validate"
    /\ k_tool \in Tools
    /\ k_namespace \in Namespaces
    /\ k_calls = <<>>
    /\ k_out = NoToolOut

\* One of the discovery functions is called inside a request.
DiscInit ==
    /\ d_pc = "start"
    /\ d_op \in {"list_agents", "discover_agents", "get_agent_details"}
    /\ d_cluster \in Clusters
    /\ d_token \in {"None", "T1"}
    /\ IF d_op = "get_agent_details"
       THEN /\ d_namespace \in {"default", "team-a"}
            /\ d_all_namespaces = FALSE
            /\ d_name \in { cr.name : cr \in AgentCardPool }
       ELSE /\ d_namespace \in NamespaceArgs
            /\ d_all_namespaces \in BOOLEAN
            /\ d_name = << >>
    /\ IF d_op = "list_agents"
       THEN d_filter \in Filters
       ELSE d_filter = NoneStr
    /\ d_client = NoResult
    /\ d_calls = <<>>
    /\ d_out = NoDiscOut

\* The process environment of the discovery specification.
DiscAuthInit ==
    /\ env \in Environments
    /\ default_config = "unset"
    /\ hdr = [r \in Requests |-> "None"]
    /\ pc = [r \in Requests |-> "idle"]
    /\ current_token = [r \in Requests |-> "None"]
    /\ result = [r \in Requests |-> NoResult]
    /\ exit = [r \in Requests |-> "none"]
    /\ clears = [r \in Requests |-> 0]

Init == AuthInit /\ SendIdle /\ served = <<>> /\ K8sIdle /\ DiscIdle

Next ==
    \/ \E r \in Requests : Dispatch(r)
    \/ \E r \in Requests, t \in BOOLEAN : CreateClient(r, t)
    \/ \E r \in Requests, how \in {"return", "raise", "cancel"} :
           HandlerExit(r, how)
    \/ \E r \in Requests : Finally(r)

Spec == Init /\ [][Next]_vars

InitSend == AuthIdle /\ SendInit /\ served = <<>> /\ K8sIdle /\ DiscIdle

NextSend ==
    \/ ToolCall
    \/ \E s \in SupportsValues : FetchPublicOk(s)
    \/ \E c \in PublicFetchErrors : FetchPublicFail(c)
    \/ FetchExtendedOk
    \/ \E c \in ExtendedFetchErrors : FetchExtendedFail(c)
    \/ SendMessageOk
    \/ \E c \in SendErrors : SendMessageFail(c)
    \/ StreamOpen
    \/ \E c \in Chunks : StreamChunk(c)
    \/ StreamClose
    \/ \E c \in StreamErrors : StreamError(c)

SpecSend == InitSend /\ [][NextSend]_vars

InitWorker ==
    WorkerInit /\ SendIdle /\ served = <<>> /\ K8sIdle /\ DiscIdle

NextWorker ==
    \/ \E r \in Requests : Dispatch(r)
    \/ \E r \in Requests, t \in BOOLEAN : CreateClient(r, t)
    \/ \E r \in Requests, how \in {"return", "raise", "cancel"} :
           HandlerExit(r, how)
    \/ \E r \in Requests : Finally(r)
    \/ \E r \in Requests, h \in HeaderValues : NextRequest(r, h)

SpecWorker == InitWorker /\ [][NextWorker]_vars

InitK8s == AuthIdle /\ SendIdle /\ served = <<>> /\ K8sInit /\ DiscIdle

NextK8s ==
    \/ ValidateNamespace
    \/ ControlPlaneOk
    \/ ControlPlaneApiException

SpecK8s == InitK8s /\ [][NextK8s]_vars

InitDisc ==
    DiscAuthInit /\ SendIdle /\ served = <<>> /\ K8sIdle /\ DiscInit

NextDisc ==
    \/ DiscGetK8sClient
    \/ DiscApiOk
    \/ \E status \in ApiStatuses : DiscApiException(status)
    \/ DiscOtherException

SpecDisc == InitDisc /\ [][NextDisc]_vars

\* One request through the middleware and one direct call of an a2a send
\* function.  The two share no state, so every interleaving is equivalent
\* to the one taken here: the request first, the send call after it.
InitRequestAndSend ==
    /\ WorkerInit
    /\ SendInit
    /\ entry = "lib"
    /\ served = <<>>
    /\ K8sIdle
    /\ DiscIdle

RequestOver == \A r \in Requests : pc[r] \in {"idle", "done"}

NextRequestAndSend ==
    \/ \E r \in Requests : Dispatch(r)
    \/ \E r \in Requests, t \in BOOLEAN : CreateClient(r, t)
    \/ \E r \in Requests, how \in {"return", "raise", "cancel"} :
           HandlerExit(r, how)
    \/ \E r \in Requests : Finally(r)
    \/ /\ RequestOver
       /\ \/ \E s \in SupportsValues : FetchPublicOk(s)
          \/ \E c \in PublicFetchErrors : FetchPublicFail(c)
          \/ FetchExtendedOk
          \/ \E c \in ExtendedFetchErrors : FetchExtendedFail(c)
          \/ SendMessageOk
          \/ \E c \in SendErrors : SendMessageFail(c)
          \/ StreamOpen
          \/ \E c \in Chunks : StreamChunk(c)
          \/ StreamClose
          \/ \E c \in StreamErrors : StreamError(c)

SpecRequestAndSend == InitRequestAndSend /\ [][NextRequestAndSend]_vars

(***************************************************************************)
(* Properties of the identity store and the client factory (Spec)          *)
(***************************************************************************)
Built(r) == result[r].status # "none"
FallbackIdentities == {"incluster", "kubeconfig"}

\* C1: for two concurrent requests with distinct tokens T1 # T2, a client
\* built by create_k8s_client during one request carries that request's own
\* token or the fallback identity, and never the other request's token,
\* under every interleaving of the set / create / clear steps.
C1_NoCrossRequestToken ==
    \A r1 \in Requests : \A r2 \in Requests :
        ( /\ r1 # r2
          /\ hdr[r1] \in Tokens /\ hdr[r2] \in Tokens
          /\ hdr[r1] # hdr[r2]
          /\ result[r1].status = "client" )
        => /\ result[r1].credential # hdr[r2]
           /\ result[r1].seen # hdr[r2]
           /\ \/ /\ result[r1].identity = "token"
                 /\ result[r1].credential = hdr[r1]
              \/ /\ result[r1].identity \in FallbackIdentities
                 /\ result[r1].credential = "None"

\* Both requests are in their handlers at once, with distinct tokens, and
\* each has built a client.
C1_Witness ==
    \E r1 \in Requests : \E r2 \in Requests :
        /\ r1 # r2
        /\ hdr[r1] = "T1" /\ hdr[r2] = "T2"
        /\ pc[r1] = "handler" /\ pc[r2] = "handler"
        /\ result[r1].status = "client" /\ result[r2].status = "client"

\* C2: create_k8s_client(token_auth_only=True) with no token in the current
\* context always raises ValueError: no client, no fallback, and no
\* configuration loader is called before it fails.
C2_TokenRequiredFails ==
    \A r \in Requests :
        (Built(r) /\ result[r].token_auth_only /\ ~Truthy(result[r].seen))
        => /\ result[r].status = "ValueError"
           /\ result[r].identity = "none"
           /\ result[r].credential = "None"
           /\ result[r].loads = <<>>

\* A request without a token demanded delegated identity and was refused.
C2_Witness ==
    \E r \in Requests :
        /\ hdr[r] = "None"
        /\ result[r].token_auth_only
        /\ result[r].status = "ValueError"
        /\ env.kubeconfig_ok

\* C3 as stated: create_k8s_client(token_auth_only=False) with no token in
\* the current context always succeeds and returns a client under the
\* locally configured identity.
C3_FallbackAlwaysSucceeds ==
    \A r \in Requests :
        (Built(r) /\ ~result[r].token_auth_only /\ ~Truthy(result[r].seen))
        => /\ result[r].status = "client"
           /\ result[r].identity \in FallbackIdentities

\* C3 (amended): create_k8s_client(token_auth_only=False) with no token never
\* raises the identity-required error and never builds a token client; it
\* returns a client under the in-cluster service identity when the in-cluster
\* configuration loads, else under the local kubeconfig identity when that
\* loads, and fails with the configuration error when neither loads.
C3_FallbackWhenConfigured ==
    \A r \in Requests :
        (Built(r) /\ ~result[r].token_auth_only /\ ~Truthy(result[r].seen))
        => /\ result[r].status # "ValueError"
           /\ result[r].credential = "None"
           /\ IF env.incluster_ok
              THEN /\ result[r].status = "client"
                   /\ result[r].identity = "incluster"
              ELSE IF env.kubeconfig_ok
              THEN /\ result[r].status = "client"
                   /\ result[r].identity = "kubeconfig"
              ELSE result[r].status = "ConfigException"

\* A request without a token got a client under the local kubeconfig.
C3_Witness ==
    \E r \in Requests :
        /\ hdr[r] = "None"
        /\ Built(r) /\ ~result[r].token_auth_only
        /\ result[r].status = "client"
        /\ result[r].identity = "kubeconfig"

\* C4 as stated: whenever the context holds a token T, create_k8s_client
\* returns, for either value of token_auth_only, a client whose bearer
\* credential is exactly T.
C4_TokenAlwaysYieldsClient ==
    \A r \in Requests :
        (Built(r) /\ Truthy(result[r].seen))
        => /\ result[r].status = "client"
           /\ result[r].credential = result[r].seen

\* C4 (amended): whenever the context holds a token T (the last value set on
\* it, not yet cleared), create_k8s_client never uses the fallback identity
\* and never raises the identity-required error, for either value of
\* token_auth_only: it returns a client whose only credential is the bearer
\* T, except outside the cluster when no configuration can be loaded, where
\* it fails with the configuration error.
C4_TokenClientCarriesToken ==
    \A r \in Requests :
        (Built(r) /\ Truthy(result[r].seen))
        => /\ result[r].seen = hdr[r]
           /\ result[r].identity \notin FallbackIdentities
           /\ result[r].status # "ValueError"
           /\ IF env.sa_token \/ env.incluster_ok \/ env.kubeconfig_ok
              THEN /\ result[r].status = "client"
                   /\ result[r].identity = "token"
                   /\ result[r].credential = result[r].seen
              ELSE result[r].status = "ConfigException"

\* A token client was built in the local-configuration branch without the
\* caller demanding delegated identity.
C4_Witness ==
    \E r \in Requests :
        /\ hdr[r] = "T1"
        /\ ~env.sa_token
        /\ ~result[r].token_auth_only
        /\ result[r].status = "client"
        /\ result[r].credential = "T1"
        /\ result[r].host = "kubeconfig"

(***************************************************************************)
(* Properties of the send calls (SpecSend)                                 *)
(***************************************************************************)
ExtendedOps == { i \in DOMAIN net : net[i].step = "extended" }
SendOps == { i \in DOMAIN net : net[i].step = "send" }
PublicFetched == Len(net) >= 1 /\ net[1].step = "public" /\ net[1].reply = "ok"
AllThree ==
    use_extended_card /\ Truthy(auth_token) /\ Truthy(public_card.supports)

\* C5: in both send functions the authenticated (extended) card fetch is
\* attempted only if use_extended_card is true, a token is present and the
\* public card declares extended-card support.
C5_ExtendedOnlyWhenAllThree ==
    /\ (ExtendedOps # {} \/ s_pc = "fetch_extended") => (PublicFetched /\ AllThree)
    /\ (PublicFetched /\ ~Truthy(public_card.supports)) => ExtendedOps = {}

\* The caller asked for the extended card with a token, the public card
\* declared no support, and the call completed its send.
C5_Witness ==
    /\ use_extended_card /\ Truthy(auth_token)
    /\ PublicFetched /\ public_card.supports = "False"
    /\ s_pc = "done" /\ outcome.status = "returned"

\* C6: when use_extended_card is true, a token is present and the public card
\* declares support, exactly one authenticated fetch is made, presenting
\* 'Bearer <token>'; if it succeeds, the extended card is the selected card
\* and the card the message client is bound to.
C6_ExtendedFetchedAndUsed ==
    (PublicFetched /\ AllThree /\ s_pc \in {"send", "streaming", "done"})
    => /\ Cardinality(ExtendedOps) = 1
       /\ \A i \in ExtendedOps :
            /\ net[i].headers = <<"Bearer", auth_token>>
            /\ net[i].op = "get_agent_card"
            /\ net[i].path = EXTENDED_AGENT_CARD_PATH
            /\ net[i].url = agent_url
            /\ net[i].reply = "ok" =>
                 /\ final_agent_card_to_use.tier = "extended"
                 /\ \A j \in SendOps : net[j].card = "extended"

\* The extended card was obtained and the message went out on it.
C6_Witness ==
    /\ s_pc = "done" /\ outcome.status = "returned"
    /\ \E i \in ExtendedOps : net[i].reply = "ok"
    /\ \E j \in SendOps : net[j].card = "extended"

\* C7: a failed extended fetch is discarded: the public card stays selected,
\* the message is sent on it, and the call's outcome comes from the send
\* alone, never from the extended-fetch error.
C7_ExtendedFailureSwallowed ==
    \A i \in ExtendedOps :
        net[i].reply # "ok"
        => /\ final_agent_card_to_use = public_card
           /\ final_agent_card_to_use.tier = "public"
           /\ \A j \in SendOps : net[j].card = "public"
           /\ outcome.cause \notin ExtendedFetchErrors
           /\ s_pc \in {"send", "streaming", "done"}
           /\ s_pc = "done" =>
                /\ SendOps # {}
                /\ LET send == net[Len(net)] IN
                   /\ send.step = "send"
                   /\ (outcome.status = "returned") <=>
                          (send.reply \in {"ok", "closed"})
                   /\ (outcome.status = "raised") =>
                          /\ outcome.cause = send.reply
                          /\ outcome.text[1] # "Failed to fetch agent card from"

\* The extended fetch timed out and the call still succeeded.
C7_Witness ==
    /\ \E i \in ExtendedOps : net[i].reply = "ext_timeout"
    /\ s_pc = "done" /\ outcome.status = "returned"

\* C8: if the public card fetch fails, the call fails with the
\* agent-unreachable error carrying the agent address and the cause; no
\* extended fetch is attempted and no message is sent.
C8_PublicFailureIsFatal ==
    (Len(net) >= 1 /\ net[1].reply # "ok")
    => /\ Len(net) = 1
       /\ s_pc = "done"
       /\ outcome.status = "raised"
       /\ outcome.text = <<"Failed to fetch agent card from", agent_url>>
       /\ outcome.cause = net[1].reply
       /\ final_agent_card_to_use = NoCard

\* A unary call whose public fetch answered 404.
C8_Witness ==
    /\ s_kind = "unary"
    /\ Len(net) = 1 /\ net[1].step = "public" /\ net[1].reply = "http_404"
    /\ outcome.status = "raised"

\* What the aggregate must hold for the chunks the peer delivered.
ExpectedBody ==
    [i \in 1..Len(delivered) |-> json_dumps(model_dump(delivered[i]))]
StreamReply ==
    IF s_kind = "streaming" /\ SendOps # {} THEN net[Len(net)].reply
    ELSE "none"

\* C9: for a stream the peer closes normally after chunks c1..cn, the call
\* returns one aggregate holding exactly c1..cn, each once, in arrival order,
\* and nothing is returned while the stream is still open.
C9_StreamAggregateInOrder ==
    /\ StreamReply = "closed" =>
         /\ outcome.status = "returned"
         /\ outcome.text = <<"Streaming response from", agent_url>>
         /\ Len(outcome.body) = Len(delivered)
         /\ \A i \in 1..Len(delivered) : outcome.body[i] = ExpectedBody[i]
    /\ StreamReply = "open" => outcome = NoOutcome

\* A closed stream that delivered at least two chunks, not all equal.
C9_Witness ==
    /\ StreamReply = "closed"
    /\ outcome.status = "returned"
    /\ Len(delivered) >= 2
    /\ delivered[1] # delivered[2]

\* C10: if the stream ends with an error after k >= 0 chunks, the call fails
\* with the dispatch-failed error and none of the collected chunks is
\* returned.
C10_StreamErrorDiscardsChunks ==
    StreamReply \in StreamErrors
    => /\ outcome.status = "raised"
       /\ outcome.text = <<"Failed to send streaming message to agent">>
       /\ outcome.cause = StreamReply
       /\ outcome.body = <<>>

\* A stream that broke after two chunks had been collected.
C10_Witness ==
    /\ StreamReply \in StreamErrors
    /\ Len(delivered) = 2
    /\ Len(result_chunks) = 2
    /\ s_pc = "done"

\* C11: within one send call the message is submitted to the peer at most
\* once: a failed send fails the call with the dispatch-failed error and is
\* followed by no second send and no further card fetch.
C11_SentAtMostOnce ==
    /\ Cardinality(SendOps) <= 1
    /\ \A i \in SendOps :
         /\ i = Len(net)
         /\ net[i].reply \notin {"ok", "open", "closed"} =>
              /\ s_pc = "done"
              /\ outcome.status = "raised"
              /\ outcome.text[1] \in
                     {"Failed to send message to agent",
                      "Failed to send streaming message to agent"}
              /\ outcome.cause = net[i].reply

\* A unary send failed on the transport and the call is over.
C11_Witness ==
    /\ s_kind = "unary"
    /\ s_pc = "done"
    /\ \E i \in SendOps : net[i].reply = "send_transport"
    /\ outcome.status = "raised"

\* C13: the tools of server.py pass use_extended_card through as the
\* attempt-extended flag and a bearer token (or none) as auth_token: with
\* use_extended_card=True, a token available and a public card declaring
\* support the extended fetch is attempted, and with use_extended_card=False
\* it never is.
C13_ToolPassesFlagAndToken ==
    (entry = "tool" /\ s_pc # "tool")
    => /\ ( /\ tool_use_extended_card
            /\ Truthy(request_token)
            /\ PublicFetched /\ Truthy(public_card.supports)
            /\ s_pc \in {"send", "streaming", "done"} )
          => ExtendedOps # {}
       /\ ~tool_use_extended_card => ExtendedOps = {}

\* C20: within one send call the steps are strictly ordered: the public
\* fetch comes first and has succeeded before any extended fetch, the
\* extended fetch (if attempted) has ended before the message is sent, the
\* message is sent only on a selected card, and the stream is consumed only
\* after the streaming request was issued.
C20_StepsInOrder ==
    /\ \A i \in DOMAIN net :
         /\ net[i].step = "public" => i = 1
         /\ net[i].step = "extended" => (i = 2 /\ PublicFetched)
         /\ net[i].step = "send" =>
              /\ i = Len(net)
              /\ PublicFetched
              /\ \A j \in 1..(i - 1) : net[j].step \in {"public", "extended"}
              /\ net[i].card \in {"public", "extended"}
              /\ net[i].card = final_agent_card_to_use.tier
              /\ should_fetch_extended(auth_token, use_extended_card,
                                       public_card) => ExtendedOps # {}
    /\ s_pc = "fetch_extended" => (PublicFetched /\ SendOps = {})
    /\ s_pc = "fetch_public" => net = <<>>
    /\ delivered # <<>> =>
         \E i \in SendOps : net[i].op = "send_message_streaming"

\* A streaming call that went through all the steps: public fetch, extended
\* fetch, streaming request, chunks.
C20_Witness ==
    /\ s_kind = "streaming"
    /\ Len(net) = 3
    /\ net[2].step = "extended"
    /\ net[3].op = "send_message_streaming"
    /\ Len(delivered) >= 1
    /\ s_pc = "done"

(***************************************************************************)
(* Properties of the middleware (Spec) and of a worker (SpecWorker)        *)
(***************************************************************************)
\* C12: on every exit path of dispatch (the handler returns, raises or is
\* cancelled) the identity of that execution context is cleared exactly
\* once, after the handler has finished; once the request is over its
\* context holds no identity.
C12_ClearedOnceOnEveryExit ==
    \A r \in Requests :
        /\ clears[r] <= 1
        /\ pc[r] \in {"start", "handler", "finally"} => clears[r] = 0
        /\ pc[r] = "done" =>
             /\ clears[r] = 1
             /\ exit[r] \in {"return", "raise", "cancel"}
             /\ current_token[r] = "None"

\* A request with a token whose handler was cancelled is over.
C12_Witness ==
    \E r \in Requests :
        /\ hdr[r] = "T1"
        /\ exit[r] = "cancel"
        /\ pc[r] = "done"

\* C18: dispatch reads the X-Auth-Token header whatever its case and sets
\* the identity before the handler starts: the handler and every client it
\* builds see the request's header token for the handler's whole duration
\* (no identity when there is no header), and per request the order is set,
\* handler, clear.
C18_SetThenHandlerThenClear ==
    \A r \in Requests :
        /\ pc[r] = "start" => (~Built(r) /\ exit[r] = "none" /\ clears[r] = 0)
        /\ pc[r] = "handler" =>
             /\ current_token[r] = hdr[r]
             /\ exit[r] = "none"
             /\ clears[r] = 0
        /\ Built(r) => result[r].seen = hdr[r]
        /\ pc[r] = "finally" => (exit[r] # "none" /\ clears[r] = 0)
        /\ pc[r] = "done" => (exit[r] # "none" /\ clears[r] = 1)

\* A handler that runs under the request's token and has built a client
\* with it.
C18_Witness ==
    \E r \in Requests :
        /\ pc[r] = "handler"
        /\ hdr[r] = "T2"
        /\ current_token[r] = "T2"
        /\ result[r].status = "client"
        /\ result[r].credential = "T2"

\* C19: identity never leaks across requests that share a worker: a client
\* built during a later request carries only that request's own token, or
\* the fallback identity when it has none, never the token of an earlier,
\* finished request; each create_k8s_client call builds its client from the
\* identity current at the call.
C19_NoLeakAcrossRequests ==
    \A r \in Requests :
        /\ pc[r] = "start" => current_token[r] = "None"
        /\ Built(r) => result[r].seen = hdr[r]
        /\ result[r].status = "client" =>
             /\ IF Truthy(hdr[r])
                THEN /\ result[r].identity = "token"
                     /\ result[r].credential = hdr[r]
                ELSE /\ result[r].identity \in FallbackIdentities
                     /\ result[r].credential = "None"
             /\ \A i \in DOMAIN served :
                  (served[i] \in Tokens /\ served[i] # hdr[r])
                  => result[r].credential # served[i]

\* After a request with token T1, a request without a token on the same
\* worker got a client under the fallback identity.
C19_Witness ==
    \E r \in Requests :
        /\ Len(served) >= 1
        /\ served[Len(served)] = "T1"
        /\ hdr[r] = "None"
        /\ result[r].status = "client"
        /\ result[r].identity \in FallbackIdentities

(***************************************************************************)
(* Properties of the read-only Kubernetes server (SpecK8s)                 *)
(***************************************************************************)
\* C14: validate_namespace raises ValueError for every namespace that is
\* not in ALLOWED_NAMESPACES, so a tool called with such a namespace fails
\* before any control-plane call is made; for a namespace in the list it
\* returns without error.
C14_DisallowedNamespaceRejected ==
    /\ ~In(k_namespace, ALLOWED_NAMESPACES) =>
          /\ k_calls = <<>>
          /\ k_pc \in {"call", "done"} => k_out.status = "ValueError"
    /\ (In(k_namespace, ALLOWED_NAMESPACES) /\ k_pc \in {"call", "done"}) =>
          k_out.status # "ValueError"

(***************************************************************************)
(* Properties of discovery (SpecDisc)                                      *)
(***************************************************************************)
\* The agents list_agents got from get_agents_data, and the rows it
\* returned.
DiscAgents == get_agents_data(list_items(d_cluster, d_calls[1].call))
ListReturned == d_op = "list_agents" /\ d_out.status = "returned"

\* The filter is a case-insensitive substring of the agent's name, of its
\* description, or of the name or description of one of its skills.
Matches(agent) ==
    LET f == Lower(d_filter)
    IN \/ IsSubstring(f, Lower(agent.agent_name))
       \/ IsSubstring(f, Lower(agent.description))
       \/ \E i \in DOMAIN agent.skills :
             \/ IsSubstring(f, Lower(agent.skills[i].name))
             \/ IsSubstring(f, Lower(agent.skills[i].description))

\* C15 as stated: with a non-empty filter list_agents lists exactly the
\* matching agents, each once, in the original order, the total is the
\* number of rows, and when no agent matches the result is the 'No agents
\* matching filter' message; with no filter all agents are listed.
C15_FilterListsExactlyMatches ==
    ListReturned =>
        IF TruthyText(d_filter)
        THEN LET matching == SelectSeq(DiscAgents, Matches)
             IN /\ d_out.rows = table_rows(matching)
                /\ d_out.total = Len(d_out.rows)
                /\ d_out.kind = IF matching = << >> THEN "no_match"
                                ELSE "table"
        ELSE /\ d_out.rows = table_rows(DiscAgents)
             /\ d_out.total = Len(d_out.rows)
             /\ d_out.kind # "no_match"

\* C15 amended: as above, except that the 'No agents matching filter'
\* message is the result only when at least one agent was discovered and
\* none matches; when no agent was discovered at all the result is the
\* 'No agents found' message, with or without a filter.
C15_FilterListsMatchesOfDiscovered ==
    ListReturned =>
        /\ DiscAgents = << >> => (d_out.kind = "no_agents"
                                  /\ d_out.rows = << >>)
        /\ DiscAgents # << >> =>
             IF TruthyText(d_filter)
             THEN LET matching == SelectSeq(DiscAgents, Matches)
                  IN /\ d_out.rows = table_rows(matching)
                     /\ d_out.total = Len(d_out.rows)
                     /\ d_out.kind = IF matching = << >> THEN "no_match"
                                     ELSE "table"
             ELSE /\ d_out.rows = table_rows(DiscAgents)
                  /\ d_out.total = Len(d_out.rows)
                  /\ d_out.kind = "table"

\* Two agents were discovered, the first matches the filter in its name
\* and in a skill, the second does not match: one row.
C15_Witness ==
    /\ ListReturned
    /\ d_filter = <<"b">>
    /\ Len(DiscAgents) = 2
    /\ DiscAgents[1].agentcard_name = <<"w">>
    /\ DiscAgents[2].agentcard_name = <<"a", "b">>
    /\ d_out.kind = "table"
    /\ d_out.total = 1

\* C16: all_namespaces=True gives the cluster-wide scope whatever the
\* namespace argument; otherwise a non-empty namespace gives that
\* namespace; otherwise the scope is 'default'.  The list call is the
\* cluster-wide one exactly when the scope is None, the namespaced one on
\* the resolved namespace otherwise.
C16_ScopePrecedence ==
    (d_op \in {"list_agents", "discover_agents"} /\ d_calls # <<>>) =>
        /\ Len(d_calls) = 1
        /\ LET call == d_calls[1].call
           IN /\ (call.api = "list_cluster_custom_object") = d_all_namespaces
              /\ d_all_namespaces => call.namespace = "None"
              /\ ~d_all_namespaces =>
                   /\ call.api = "list_namespaced_custom_object"
                   /\ call.namespace =
                        IF d_namespace \in {"None", ""} THEN "default"
                        ELSE d_namespace

\* all_namespaces=True together with a namespace: the cluster-wide call.
C16_Witness ==
    /\ d_op = "discover_agents"
    /\ d_all_namespaces
    /\ d_namespace = "team-a"
    /\ d_calls # <<>>
    /\ d_calls[1].call.api = "list_cluster_custom_object"
    /\ d_out.status = "returned"

NotFoundErrors == {"AgentCard CRD not found", "AgentCard not found in namespace"}
ForbiddenErrors == {"Permission denied to access AgentCard resources",
                    "Permission denied to access AgentCard"}
GenericApiErrors == {"Kubernetes API error"}
FailedToErrors == {"Failed to discover agent cards",
                   "Failed to get AgentCard details"}

\* The error raised by the function that made the control-plane call
\* (list_agents' own wrapper taken off).
RaisedByCaller ==
    IF d_op = "list_agents" /\ d_out.error # <<>>
    THEN Tail(d_out.error) ELSE d_out.error

\* C17: a rejected control-plane call is mapped to exactly one of three
\* distinguishable errors: 404 to not found, 403 to permission denied, any
\* other status to the generic Kubernetes API error; the function does not
\* wrap that error again into its 'Failed to ...' error, and no result is
\* returned.
C17_RejectionMapped ==
    /\ NotFoundErrors \cap ForbiddenErrors = {}
    /\ NotFoundErrors \cap GenericApiErrors = {}
    /\ ForbiddenErrors \cap GenericApiErrors = {}
    /\ \A i \in DOMAIN d_calls :
         d_calls[i].reply = "ApiException" =>
            /\ d_out.status = "raised"
            /\ d_out.rows = << >>
            /\ d_out.kind = "none"
            /\ Len(RaisedByCaller) = 1
            /\ RaisedByCaller[1] \in
                 ( IF d_calls[i].status = 404 THEN NotFoundErrors
                   ELSE IF d_calls[i].status = 403 THEN ForbiddenErrors
                   ELSE GenericApiErrors )
            /\ \A j \in DOMAIN d_out.error :
                 d_out.error[j] \notin FailedToErrors

\* The listing of list_agents was rejected with 403.
C17_Witness ==
    /\ d_op = "list_agents"
    /\ d_calls # <<>>
    /\ d_calls[1].reply = "ApiException"
    /\ d_calls[1].status = 403
    /\ d_out.error = <<"Error creating agent summary",
                       "Permission denied to access AgentCard resources">>

(***************************************************************************)
(* Properties of the empty token (SpecRequestAndSend)                      *)
(***************************************************************************)
\* What holds of an empty token after the identity store: a client built
\* with it in context comes from the fallback path when token_auth_only is
\* false and is refused with ValueError, before any loader runs, when it
\* is true; a send call given it never attempts the extended fetch; no
\* empty bearer credential reaches the control plane or a peer.
EmptyTokenNeverUsed ==
    /\ \A r \in Requests :
         (hdr[r] = "" /\ result[r].status # "none") =>
            /\ result[r].seen \in {"", "None"}
            /\ result[r].credential = "None"
            /\ IF result[r].token_auth_only
               THEN /\ result[r].status = "ValueError"
                    /\ result[r].loads = <<>>
               ELSE /\ result[r].status \in {"client", "ConfigException"}
                    /\ result[r].loads # <<>>
                    /\ result[r].status = "client" =>
                          result[r].identity \in FallbackIdentities
    /\ auth_token = "" => ExtendedOps = {}
    /\ \A r \in Requests : result[r].credential # ""
    /\ \A i \in DOMAIN net : net[i].headers # auth_headers_dict("")

\* C21 as stated: a request whose X-Auth-Token header is empty stores no
\* identity (the store holds None, as for a request without the header),
\* and the empty token is never used as a credential anywhere.
C21_EmptyTokenStoresNothing ==
    /\ \A r \in Requests :
         (hdr[r] = "" /\ pc[r] = "handler") => current_token[r] = "None"
    /\ EmptyTokenNeverUsed

\* C21 amended: a request whose X-Auth-Token header is empty stores the
\* empty string as its identity, not None, until the clear; every reader of
\* the store and the send functions test the token's truthiness, so the
\* empty token is never used as a credential anywhere.
C21_EmptyTokenStoredButUnused ==
    /\ \A r \in Requests :
         (hdr[r] = "" /\ pc[r] = "handler") => current_token[r] = ""
    /\ \A r \in Requests :
         (hdr[r] = "" /\ pc[r] = "done") => current_token[r] = "None"
    /\ EmptyTokenNeverUsed

\* A request with an empty header got its client from the fallback path and
\* is over; a send call with an empty auth_token, the extended card asked
\* for and supported by the peer, has sent its message without the
\* extended fetch.
C21_Witness ==
    /\ \E r \in Requests :
         /\ hdr[r] = ""
         /\ pc[r] = "done"
         /\ result[r].status = "client"
         /\ result[r].identity \in FallbackIdentities
    /\ auth_token = ""
    /\ use_extended_card
    /\ public_card.supports = "True"
    /\ SendOps # {}
    /\ ExtendedOps = {}

\* C22: every discovery operation builds its client through
\* create_k8s_client with token_auth_only=False: it is never refused with
\* the identity-required error (ValueError); a call without a token that
\* reaches the control plane does so under the locally configured identity
\* with no bearer credential, a call with token T only under T.
C22_DiscoveryFallsBack ==
    /\ d_client.status # "none" =>
          /\ d_client.token_auth_only = FALSE
          /\ d_client.seen = d_token
          /\ d_client.status # "ValueError"
    /\ \A j \in DOMAIN d_out.error : d_out.error[j] # "ValueError"
    /\ d_calls # <<>> =>
          /\ d_client.status = "client"
          /\ IF d_token \in Tokens
             THEN /\ d_client.identity = "token"
                  /\ d_client.credential = d_token
             ELSE /\ d_client.identity \in FallbackIdentities
                  /\ d_client.credential = "None"

\* get_agent_details without a token was answered under the fallback
\* identity.
C22_Witness ==
    /\ d_op = "get_agent_details"
    /\ d_token = "None"
    /\ d_client.status = "client"
    /\ d_client.identity \in FallbackIdentities
    /\ d_calls # <<>>
    /\ d_out.status = "returned"

====
